---- MODULE Spec2Model ----
(***************************************************************************)
(* DiffAnnotator (src/src/App.tsx): the hunk-labelling state of the App    *)
(* component, its event handlers, the reactive effects of HunkView and      *)
(* LabelView, and the JSON export / import pair.                            *)
(*                                                                          *)
(* Conventions.                                                             *)
(*  - A JavaScript Map whose iteration order is observed (labelMap, the     *)
(*    Maps built by exportAsJSON, the exported object) is a sequence of     *)
(*    [key, value] records in insertion order.  hunkMap and labelFilter are *)
(*    only read with get / has / size, so they are a function and a set.    *)
(*  - A Hunk object is a record with a field ref, its object identity: the  *)
(*    key of hunkMap.  Text (a .diff or .json file) carries hunk contents   *)
(*    without identity; every load creates new objects.  As a load replaces *)
(*    diff and resets hunkMap, the new objects are numbered 1..n again.     *)
(*  - generateUUID returns an id that no store refers to; the model takes   *)
(*    the first such id of a finite pool.                                   *)
(*  - React runs the passive effects of a commit before it handles the next *)
(*    event: a user event is enabled only when no effect is pending, and    *)
(*    FlushEffects runs all pending effects of the last commit at once.     *)
(***************************************************************************)
EXTENDS Integers, Sequences, FiniteSets, TLC

VARIABLES
    diff,          \* App: const diff = useMemo(...), a sequence of ParsedDiff
    labelMap,      \* App: useMap<UUID, string>, insertion ordered
    hunkMap,       \* App: useMap<Hunk, UUID>, keyed by hunk identity (ref)
    labelFilter,   \* App: useMap<UUID, undefined>, used as a set
    inFilter,      \* ids of the mounted LabelViews whose inFilter state is true
    hunkViews,     \* the mounted HunkViews: [key, hunk], as last rendered
    pendingHunk,   \* refs of the hunks whose HunkView effect is scheduled
    pendingLabel,  \* ids of the labels whose LabelView effect is scheduled
    crashed,       \* the React tree was unmounted by an error thrown in render
    lastEvent      \* the last user event handled: [op, id, text]

vars == <<diff, labelMap, hunkMap, labelFilter, inFilter, hunkViews,
          pendingHunk, pendingLabel, crashed, lastEvent>>

----------------------------------------------------------------------------
(* Bounds and input universes *)

\* size of the pool generateUUID draws from
MaxUUIDs == 2
\* "Add" is followed only while fewer labels than this exist (an import may
\* create more: one per key of the document)
MaxLabels == 1

UUIDPool == <<"u1", "u2", "u3", "u4", "u5", "u6">>

\* uuid NIL
NULL_UUID == "00000000-0000-0000-0000-000000000000"
\* the JavaScript value undefined
Undefined == "<undefined>"
\* the value of the selector's placeholder <option>Choose label</option>
ChooseLabel == "Choose label"

\* label texts typed by the user ("" can only be typed when renaming)
Texts == {"a", "undefined"}
RenameTexts == {"", "a", "undefined"}

----------------------------------------------------------------------------
(* JavaScript Map, insertion ordered: a sequence of [key, value] *)

MapKeys(m) == {m[i].key : i \in 1..Len(m)}

MapHas(m, k) == k \in MapKeys(m)

MapIndex(m, k) == CHOOSE i \in 1..Len(m) : m[i].key = k

MapGet(m, k) == IF MapHas(m, k) THEN m[MapIndex(m, k)].value ELSE Undefined

MapSet(m, k, v) ==
    IF MapHas(m, k) THEN [m EXCEPT ![MapIndex(m, k)].value = v]
    ELSE Append(m, [key |-> k, value |-> v])

MapRemove(m, k) ==
    IF MapHas(m, k)
    THEN LET i == MapIndex(m, k)
         IN SubSeq(m, 1, i - 1) \o SubSeq(m, i + 1, Len(m))
    ELSE m

MapValues(m) == [i \in 1..Len(m) |-> m[i].value]

(* hunkMap: a function from hunk refs *)
EmptyMap == <<>>

HunkGet(hm, ref) == IF ref \in DOMAIN hm THEN hm[ref] ELSE Undefined

HunkSet(hm, ref, id) ==
    [r \in DOMAIN hm \cup {ref} |-> IF r = ref THEN id ELSE hm[r]]

HunkRemove(hm, ref) == [r \in DOMAIN hm \ {ref} |-> hm[r]]

Range(f) == {f[x] : x \in DOMAIN f}

----------------------------------------------------------------------------
(* ParsedDiff and Hunk (package "diff"); texts of input files *)

\* the contents of a hunk, as written in a file
HunkText(start) ==
    [oldStart |-> start, oldLines |-> 1, newStart |-> start, newLines |-> 1,
     lines |-> IF start = 1 THEN <<"-a", "+b">> ELSE <<"-c", "+d">>]

FileText(old, new, hunks) ==
    [oldFileName |-> old, newFileName |-> new, hunks |-> hunks]

\* a Hunk object: the contents and the identity of the object
HunkObject(ref, h) ==
    [ref |-> ref, oldStart |-> h.oldStart, oldLines |-> h.oldLines,
     newStart |-> h.newStart, newLines |-> h.newLines, lines |-> h.lines]

HunkContent(h) ==
    [oldStart |-> h.oldStart, oldLines |-> h.oldLines,
     newStart |-> h.newStart, newLines |-> h.newLines, lines |-> h.lines]

\* new Hunk objects for the hunks of fds, numbered from base + 1 in traversal order
RECURSIVE Allocate(_, _)
Allocate(fds, base) ==
    IF fds = <<>> THEN <<>>
    ELSE LET fd == Head(fds)
         IN <<[fd EXCEPT !.hunks =
                  [i \in 1..Len(fd.hunks) |-> HunkObject(base + i, fd.hunks[i])]]>>
            \o Allocate(Tail(fds), base + Len(fd.hunks))

\* diff.forEach(fileDiff => fileDiff.hunks.forEach(hunk => ...)): the traversal
RECURSIVE Traversal(_)
Traversal(ds) ==
    IF ds = <<>> THEN <<>>
    ELSE [i \in 1..Len(Head(ds).hunks) |->
             [fileDiff |-> Head(ds), hunk |-> Head(ds).hunks[i]]]
         \o Traversal(Tail(ds))

\* parsePatch("") and parsePatch of a text without hunk headers: one index, no hunks
DiffEmpty == <<FileText(Undefined, Undefined, <<>>)>>

\* one file with two hunks
DiffA == <<FileText("a/A", "b/A", <<HunkText(1), HunkText(5)>>)>>

\* two files, A with two hunks, B with one
DiffAB ==
    <<FileText("a/A", "b/A", <<HunkText(1), HunkText(5)>>),
      FileText("a/B", "b/B", <<HunkText(1)>>)>>

\* the same file named twice, another file in between
DiffABA ==
    <<FileText("a/A", "b/A", <<HunkText(1)>>),
      FileText("a/B", "b/B", <<HunkText(1)>>),
      FileText("a/A", "b/A", <<HunkText(5)>>)>>

\* a file and its rename: same old name, different new names
DiffRename ==
    <<FileText("a/A", "b/A", <<HunkText(1)>>),
      FileText("a/A", "b/B", <<HunkText(5)>>)>>

DiffFile(body) == [kind |-> "diff", body |-> body]
JSONFile(body) == [kind |-> "json", body |-> body]
\* a text that is neither a unified diff with hunks nor JSON
GarbageFile == [kind |-> "garbage", body |-> <<>>]

SampleDiffs == {DiffEmpty, DiffA, DiffRename}

\* the diffs of three hunks, and a diff without hunks
WideDiffs == {DiffEmpty, DiffAB, DiffABA}

\* a hand-written document: two labels, one hunk each
SampleDocument ==
    <<[key |-> "a", value |-> <<FileText("a/A", "b/A", <<HunkText(1)>>)>>],
      [key |-> "undefined", value |-> <<FileText("a/A", "b/A", <<HunkText(5)>>)>>]>>

\* parsePatch(text); "throws" stands for an exception
parsePatch(text) ==
    IF text.kind = "diff" THEN Allocate(text.body, 0) ELSE Allocate(DiffEmpty, 0)

\* JSON.stringify(object, null, 2): the text keeps keys and contents, not identity
JSONstringify(object) ==
    JSONFile([i \in 1..Len(object) |->
        [key |-> object[i].key,
         value |-> [j \in 1..Len(object[i].value) |->
             LET fd == object[i].value[j]
             IN [fd EXCEPT !.hunks =
                    [k \in 1..Len(fd.hunks) |-> HunkContent(fd.hunks[k])]]]]])

RECURSIVE changesCount(_)
changesCount(d) ==
    IF d = <<>> THEN 0 ELSE Len(Head(d).hunks) + changesCount(Tail(d))

\* JSON.parse(text) of a document: new objects for every entry, in text order
RECURSIVE ParseEntries(_, _)
ParseEntries(entries, base) ==
    IF entries = <<>> THEN <<>>
    ELSE LET fds == Allocate(Head(entries).value, base)
         IN <<[key |-> Head(entries).key, value |-> fds]>>
            \o ParseEntries(Tail(entries), base + changesCount(fds))

JSONparse(text) == ParseEntries(text.body, 0)

----------------------------------------------------------------------------
(* App: label and association handlers, as functions on the Maps *)

\* the ids of the pool that no store refers to, in pool order
FreshUUIDs(used) ==
    SelectSeq([i \in 1..MaxUUIDs |-> UUIDPool[i]], LAMBDA u : u \notin used)

\* every id a store of the App refers to
UsedUUIDs == MapKeys(labelMap) \cup Range(hunkMap) \cup labelFilter

generateUUID(used) == Head(FreshUUIDs(used))

importLabel(lm, id, label) == MapSet(lm, id, label)

addLabel(lm, id, newLabel) == MapSet(lm, id, newLabel)

\* changeLabel that deletes the entry and sets it again: the label moves last
changeLabelReinsert(lm, id, newLabel) == MapSet(MapRemove(lm, id), id, newLabel)

changeLabel(lm, id, newLabel) == MapSet(lm, id, newLabel)

\* removeLabel with an element -1 spliced out when the id is not found: the
\* last label goes
removeLabelSplice(lm, id) ==
    IF MapHas(lm, id) THEN MapRemove(lm, id) ELSE SubSeq(lm, 1, Len(lm) - 1)

removeLabel(lm, id) == MapRemove(lm, id)

onHunkLabelChange(hm, ref, newLabelId) ==
    IF newLabelId = Undefined THEN HunkRemove(hm, ref)
    ELSE HunkSet(hm, ref, newLabelId)

addToFilter(filter, id) == filter \cup {id}

removeFromFilter(filter, id) == filter \ {id}

----------------------------------------------------------------------------
(* App.exportAsJSON *)

\* JSON.stringify([oldFileName, newFileName]): injective on pairs of names
FileKey(fileDiff) == <<fileDiff.oldFileName, fileDiff.newFileName>>

\* hunkMap.get(hunk) || NULL_UUID
GroupId(hm, hunk) ==
    IF HunkGet(hm, hunk.ref) = Undefined THEN NULL_UUID ELSE HunkGet(hm, hunk.ref)

\* GroupHunk with unshift for push: the hunk is put first in its synthetic diff
GroupHunkUnshift(map, hm, e) ==
    LET uuid == GroupId(hm, e.hunk)
        map1 == IF MapHas(map, uuid) THEN map ELSE MapSet(map, uuid, <<>>)
        innerMap == MapGet(map1, uuid)
        key == FileKey(e.fileDiff)
        inner1 == IF MapHas(innerMap, key) THEN innerMap
                  ELSE MapSet(innerMap, key, [e.fileDiff EXCEPT !.hunks = <<>>])
        syntheticDiff == MapGet(inner1, key)
    IN MapSet(map1, uuid,
              MapSet(inner1, key,
                     [syntheticDiff EXCEPT !.hunks = <<e.hunk>> \o @]))

\* one step of the traversal: the hunk of entry e is pushed on its synthetic diff
GroupHunk(map, hm, e) ==
    LET uuid == GroupId(hm, e.hunk)
        map1 == IF MapHas(map, uuid) THEN map ELSE MapSet(map, uuid, <<>>)
        innerMap == MapGet(map1, uuid)
        key == FileKey(e.fileDiff)
        inner1 == IF MapHas(innerMap, key) THEN innerMap
                  ELSE MapSet(innerMap, key, [e.fileDiff EXCEPT !.hunks = <<>>])
        syntheticDiff == MapGet(inner1, key)
    IN MapSet(map1, uuid,
              MapSet(inner1, key,
                     [syntheticDiff EXCEPT !.hunks = Append(@, e.hunk)]))

RECURSIVE GroupAll(_, _, _)
GroupAll(map, hm, es) ==
    IF es = <<>> THEN map ELSE GroupAll(GroupHunk(map, hm, Head(es)), hm, Tail(es))

\* labelMap.get(id) || "undefined"
ExportKey(lm, id) ==
    IF MapGet(lm, id) = Undefined \/ MapGet(lm, id) = "" THEN "undefined"
    ELSE MapGet(lm, id)

\* map.forEach((innerMap, id) => object[...] = Array.from(innerMap.values()))
RECURSIVE BuildObject(_, _, _)
BuildObject(object, lm, map) ==
    IF map = <<>> THEN object
    ELSE BuildObject(MapSet(object, ExportKey(lm, Head(map).key),
                            MapValues(Head(map).value)),
                     lm, Tail(map))

\* the object exportAsJSON builds from the working state
ExportObject(d, hm, lm) == BuildObject(<<>>, lm, GroupAll(<<>>, hm, Traversal(d)))

\* the text of annotated_diff.json
exportAsJSON(d, hm, lm) == JSONstringify(ExportObject(d, hm, lm))

----------------------------------------------------------------------------
(* App: const diff = useMemo(..., [rawData]) *)

RECURSIVE SetHunks(_, _, _)
SetHunks(hm, es, id) ==
    IF es = <<>> THEN hm ELSE SetHunks(HunkSet(hm, Head(es).hunk.ref, id), Tail(es), id)

\* Object.entries(data).forEach(([label, parsedDiffs]) => ...)
RECURSIVE ImportEntries(_, _, _)
ImportEntries(acc, entries, ids) ==
    IF entries = <<>> THEN acc
    ELSE LET label == Head(entries).key
             parsedDiffs == Head(entries).value
             id == Head(ids)
         IN ImportEntries(
                [labelMap |-> importLabel(acc.labelMap, id, label),
                 hunkMap |-> SetHunks(acc.hunkMap, Traversal(parsedDiffs), id),
                 result |-> acc.result \o parsedDiffs],
                Tail(entries), Tail(ids))

\* diffMemo with labelMapActions.reset() before the test of rawData.isJSON
diffMemoResetsLabels(rawData, lm, ids) ==
    IF rawData.isJSON
    THEN LET r == ImportEntries([labelMap |-> <<>>, hunkMap |-> EmptyMap, result |-> <<>>],
                                JSONparse(rawData.text), ids)
         IN [diff |-> r.result, labelMap |-> r.labelMap, hunkMap |-> r.hunkMap]
    ELSE [diff |-> parsePatch(rawData.text), labelMap |-> <<>>, hunkMap |-> EmptyMap]

\* diffMemo without hunkMapActions.reset(): the associations there are stay
diffMemoKeepsHunks(rawData, lm, ids) ==
    IF rawData.isJSON
    THEN LET r == ImportEntries([labelMap |-> <<>>, hunkMap |-> hunkMap, result |-> <<>>],
                                JSONparse(rawData.text), ids)
         IN [diff |-> r.result, labelMap |-> r.labelMap, hunkMap |-> r.hunkMap]
    ELSE [diff |-> parsePatch(rawData.text), labelMap |-> lm, hunkMap |-> hunkMap]

\* diffMemo without labelMapActions.reset(): the labels of the document are added
\* to the labels there are
diffMemoKeepsLabels(rawData, lm, ids) ==
    IF rawData.isJSON
    THEN LET r == ImportEntries([labelMap |-> lm, hunkMap |-> EmptyMap, result |-> <<>>],
                                JSONparse(rawData.text), ids)
         IN [diff |-> r.result, labelMap |-> r.labelMap, hunkMap |-> r.hunkMap]
    ELSE [diff |-> parsePatch(rawData.text), labelMap |-> lm, hunkMap |-> EmptyMap]

\* the memo for rawData = [isJSON, text]: what it returns and leaves in the Maps;
\* ids are the ids generateUUID returns, in order
diffMemo(rawData, lm, ids) ==
    IF rawData.isJSON
    THEN LET r == ImportEntries([labelMap |-> <<>>, hunkMap |-> EmptyMap, result |-> <<>>],
                                JSONparse(rawData.text), ids)
         IN [diff |-> r.result, labelMap |-> r.labelMap, hunkMap |-> r.hunkMap]
    ELSE [diff |-> parsePatch(rawData.text), labelMap |-> lm, hunkMap |-> EmptyMap]

----------------------------------------------------------------------------
(* App render: the list of HunkViews *)

\* Visible without the test !hunkMap.has(hunk)
VisibleIfInFilter(hunk, hm, filter) ==
    \/ filter = {}
    \/ HunkGet(hm, hunk.ref) \in filter

\* labelFilter.size === 0 || !hunkMap.has(hunk) || labelFilter.has(hunkMap.get(hunk))
Visible(hunk, hm, filter) ==
    \/ filter = {}
    \/ hunk.ref \notin DOMAIN hm
    \/ hm[hunk.ref] \in filter

\* key={`${fileDiff.oldFileName}_${fileDiff.newFileName}_${hunk.oldStart}_${hunkMap.get(hunk)}`}
HunkViewKey(fileDiff, hunk, hm) ==
    <<fileDiff.oldFileName, fileDiff.newFileName, hunk.oldStart, HunkGet(hm, hunk.ref)>>

Render(d, hm, filter) ==
    LET es == Traversal(d)
    IN {[key |-> HunkViewKey(es[i].fileDiff, es[i].hunk, hm), hunk |-> es[i].hunk.ref] :
           i \in {j \in 1..Len(es) : Visible(es[j].hunk, hm, filter)}}

\* Number of uncategorized changes: {changesCount - hunkMap.size}
UncategorizedCount == changesCount(diff) - Cardinality(DOMAIN hunkMap)

----------------------------------------------------------------------------
(* Rendering and effects *)

Quiescent == pendingHunk = {} /\ pendingLabel = {}

Event(op, id, text) == [op |-> op, id |-> id, text |-> text]

\* Commit with the LabelView effect written without its dependency list
\* (useEffect(() => ...)): it runs for every mounted label after every commit
CommitLabelEffectsAlways(nDiff, nLabelMap, nHunkMap, nFilter, nInFilter, labelMapChanged, labelEffects) ==
    LET views == Render(nDiff, nHunkMap, nFilter)
        oldKeys == {v.key : v \in hunkViews}
    IN /\ diff' = nDiff
       /\ labelMap' = nLabelMap
       /\ hunkMap' = nHunkMap
       /\ labelFilter' = nFilter
       /\ inFilter' = nInFilter
       /\ hunkViews' = views
       /\ pendingHunk' = {v.hunk : v \in {w \in views : labelMapChanged \/ w.key \notin oldKeys}}
       /\ pendingLabel' = MapKeys(nLabelMap)
       /\ crashed' = FALSE

\* A commit of the App with the new state.  A HunkView whose key was not rendered
\* before is mounted and runs its effect; a HunkView that stays runs it when
\* labelMap is a new Map (useEffect(..., [labelMap])).  labelEffects are the
\* LabelViews that are mounted by this commit or whose inFilter changed
\* (useEffect(..., [inFilter])).
Commit(nDiff, nLabelMap, nHunkMap, nFilter, nInFilter, labelMapChanged, labelEffects) ==
    LET views == Render(nDiff, nHunkMap, nFilter)
        oldKeys == {v.key : v \in hunkViews}
    IN /\ diff' = nDiff
       /\ labelMap' = nLabelMap
       /\ hunkMap' = nHunkMap
       /\ labelFilter' = nFilter
       /\ inFilter' = nInFilter
       /\ hunkViews' = views
       /\ pendingHunk' = {v.hunk : v \in {w \in views : labelMapChanged \/ w.key \notin oldKeys}}
       /\ pendingLabel' = labelEffects
       /\ crashed' = FALSE

\* An error thrown while rendering, with no error boundary: React unmounts the
\* whole tree, and the state of App and of every view is gone.
Unmount ==
    /\ diff' = <<>>
    /\ labelMap' = <<>>
    /\ hunkMap' = EmptyMap
    /\ labelFilter' = {}
    /\ inFilter' = {}
    /\ hunkViews' = {}
    /\ pendingHunk' = {}
    /\ pendingLabel' = {}
    /\ crashed' = TRUE

\* HunkView effect: if (selectedLabelId && !labelMap.has(selectedLabelId))
\*                      setSelectedLabelId(undefined)
HunkViewEffect(hm, lm, ref) ==
    IF HunkGet(hm, ref) # Undefined /\ ~MapHas(lm, HunkGet(hm, ref))
    THEN onHunkLabelChange(hm, ref, Undefined)
    ELSE hm

\* LabelView effect: if (inFilter) addToFilter(labelId) else removeFromFilter(labelId)
LabelViewEffect(filter, flags, id) ==
    IF id \in flags THEN addToFilter(filter, id) ELSE removeFromFilter(filter, id)

RECURSIVE RunHunkEffects(_, _, _)
RunHunkEffects(hm, lm, refs) ==
    IF refs = {} THEN hm
    ELSE LET r == CHOOSE x \in refs : TRUE
         IN RunHunkEffects(HunkViewEffect(hm, lm, r), lm, refs \ {r})

RECURSIVE RunLabelEffects(_, _, _)
RunLabelEffects(filter, flags, ids) ==
    IF ids = {} THEN filter
    ELSE LET i == CHOOSE x \in ids : TRUE
         IN RunLabelEffects(LabelViewEffect(filter, flags, i), flags, ids \ {i})

\* the passive effects of the last commit, then the commit of what they set
FlushEffects ==
    /\ ~crashed
    /\ ~Quiescent
    /\ Commit(diff, labelMap, RunHunkEffects(hunkMap, labelMap, pendingHunk),
              RunLabelEffects(labelFilter, inFilter, pendingLabel), inFilter,
              FALSE, {})
    /\ UNCHANGED lastEvent

----------------------------------------------------------------------------
(* User events *)

Ready == ~crashed /\ Quiescent

\* "Add" with a non-empty text in the New label box
AddLabel ==
    /\ Ready
    /\ Len(labelMap) < MaxLabels
    /\ FreshUUIDs(UsedUUIDs) # <<>>
    /\ \E newLabel \in Texts :
          LET id == generateUUID(UsedUUIDs)
          IN /\ Commit(diff, addLabel(labelMap, id, newLabel), hunkMap, labelFilter,
                       inFilter, TRUE, {id})
             /\ lastEvent' = Event("addLabel", Undefined, "")

\* LabelView.commitEdit: the save button of a label in edit mode
CommitEdit ==
    /\ Ready
    /\ \E id \in MapKeys(labelMap), newLabel \in RenameTexts :
          /\ Commit(diff, changeLabel(labelMap, id, newLabel), hunkMap, labelFilter,
                    inFilter, TRUE, {})
          /\ lastEvent' = Event("changeLabel", id, newLabel)

\* the trash button of a label; its LabelView is unmounted
RemoveLabel ==
    /\ Ready
    /\ \E id \in MapKeys(labelMap) :
          /\ Commit(diff, removeLabel(labelMap, id), hunkMap, labelFilter,
                    inFilter \ {id}, TRUE, {})
          /\ lastEvent' = Event("removeLabel", id, "")

\* the filter button of a label: setInFilter(flag => !flag)
ToggleFilter ==
    /\ Ready
    /\ \E id \in MapKeys(labelMap) :
          /\ Commit(diff, labelMap, hunkMap, labelFilter,
                    IF id \in inFilter THEN inFilter \ {id} ELSE inFilter \cup {id},
                    FALSE, {id})
          /\ lastEvent' = Event("toggleFilter", Undefined, "")

\* the options of a HunkView's selector: the placeholder, then the labels
SelectOptions == {ChooseLabel} \cup MapKeys(labelMap)

\* the option the selector shows for the hunk
SelectedOption(ref) ==
    IF HunkGet(hunkMap, ref) = Undefined THEN ChooseLabel ELSE HunkGet(hunkMap, ref)

\* Form.Select onChange of a displayed hunk: another option is chosen
SelectLabel ==
    /\ Ready
    /\ \E v \in hunkViews, value \in SelectOptions :
          /\ value # SelectedOption(v.hunk)
          /\ Commit(diff, labelMap, onHunkLabelChange(hunkMap, v.hunk, value),
                    labelFilter, inFilter, FALSE, {})
          /\ lastEvent' = Event("selectLabel", value, "")

\* reader.onload: setRawData(rawData), then the memo
Load(rawData, op) ==
    LET n == IF rawData.isJSON THEN Len(rawData.text.body) ELSE 0
        ids == FreshUUIDs(UsedUUIDs)
        r == diffMemo(rawData, labelMap, ids)
    IN /\ Len(ids) >= n
       /\ Commit(r.diff, r.labelMap, r.hunkMap, labelFilter,
                 IF rawData.isJSON THEN {} ELSE inFilter,
                 rawData.isJSON,
                 IF rawData.isJSON THEN MapKeys(r.labelMap) ELSE {})
       /\ lastEvent' = Event(op, Undefined, "")

\* a .diff file is chosen
LoadDiff ==
    /\ Ready
    /\ \E d \in SampleDiffs : Load([isJSON |-> FALSE, text |-> DiffFile(d)], "loadDiff")

\* a .json file written by hand is chosen
LoadDocument ==
    /\ Ready
    /\ Load([isJSON |-> TRUE, text |-> JSONFile(SampleDocument)], "loadDocument")

\* "Export as JSON", then the saved annotated_diff.json is chosen
LoadExported ==
    /\ Ready
    /\ Load([isJSON |-> TRUE, text |-> exportAsJSON(diff, hunkMap, labelMap)],
            "loadExported")

\* a .json file whose text is not a JSON document is chosen: JSON.parse throws
LoadInvalidDocument ==
    /\ Ready
    /\ Unmount
    /\ lastEvent' = Event("loadInvalid", Undefined, "json")

\* a .diff file whose text is not a unified diff is chosen: parsePatch throws on
\* it (a hunk whose line counts contradict its header, for the versions of the
\* parser that check them) or reads it as one file without hunks
LoadInvalidDiff ==
    /\ Ready
    /\ \E throws \in BOOLEAN :
          IF throws
          THEN Unmount
          ELSE Commit(parsePatch(GarbageFile), labelMap, EmptyMap, labelFilter,
                      inFilter, FALSE, {})
    /\ lastEvent' = Event("loadInvalid", Undefined, "diff")

\* a .diff file with three hunks is chosen
LoadWideDiff ==
    /\ Ready
    /\ \E d \in WideDiffs : Load([isJSON |-> FALSE, text |-> DiffFile(d)], "loadDiff")

----------------------------------------------------------------------------

Init ==
    /\ diff = parsePatch(DiffFile(DiffEmpty))
    /\ labelMap = <<>>
    /\ hunkMap = EmptyMap
    /\ labelFilter = {}
    /\ inFilter = {}
    /\ hunkViews = {}
    /\ pendingHunk = {}
    /\ pendingLabel = {}
    /\ crashed = FALSE
    /\ lastEvent = Event("init", Undefined, "")

Next ==
    \/ AddLabel
    \/ CommitEdit
    \/ RemoveLabel
    \/ ToggleFilter
    \/ SelectLabel
    \/ LoadDiff
    \/ LoadDocument
    \/ LoadExported
    \/ LoadInvalidDocument
    \/ LoadInvalidDiff
    \/ FlushEffects

Spec == Init /\ [][Next]_vars

\* The user events that schedule effects (a load, a label added, renamed or
\* deleted, a hunk's label changed, a filter toggled) and the effects.  React
\* runs the passive effects of a commit: they are never left pending.
NextEvents ==
    \/ AddLabel
    \/ CommitEdit
    \/ RemoveLabel
    \/ ToggleFilter
    \/ SelectLabel
    \/ LoadDiff
    \/ FlushEffects

SpecFair == Init /\ [][NextEvents]_vars /\ WF_vars(FlushEffects)

\* The App fed with diffs of three hunks, its labels and its selectors (no filter).
NextWide ==
    \/ LoadWideDiff
    \/ AddLabel
    \/ CommitEdit
    \/ RemoveLabel
    \/ SelectLabel
    \/ FlushEffects

SpecWide == Init /\ [][NextWide]_vars

----------------------------------------------------------------------------
(* The handlers of App called as functions, by any caller and with any id *)

\* "present" when the call finds its key in the store it writes
Found(b) == IF b THEN "present" ELSE "absent"

\* changeLabel(id, newLabel); a LabelView is mounted for an id that is new (such
\* calls are followed only while fewer than MaxLabels labels exist)
CallChangeLabel ==
    /\ Ready
    /\ \E i \in 1..MaxUUIDs, newLabel \in RenameTexts :
          LET id == UUIDPool[i]
          IN /\ MapHas(labelMap, id) \/ Len(labelMap) < MaxLabels
             /\ Commit(diff, changeLabel(labelMap, id, newLabel), hunkMap, labelFilter,
                       inFilter, TRUE, IF MapHas(labelMap, id) THEN {} ELSE {id})
             /\ lastEvent' = Event("callChangeLabel", id, Found(MapHas(labelMap, id)))

\* removeLabel(id)
CallRemoveLabel ==
    /\ Ready
    /\ \E i \in 1..MaxUUIDs :
          LET id == UUIDPool[i]
          IN /\ Commit(diff, removeLabel(labelMap, id), hunkMap, labelFilter,
                       inFilter \ {id}, TRUE, {})
             /\ lastEvent' = Event("callRemoveLabel", id, Found(MapHas(labelMap, id)))

\* onHunkLabelChange(hunk, undefined) for a hunk of the working diff set
CallClearLabel ==
    /\ Ready
    /\ \E i \in 1..Len(Traversal(diff)) :
          LET ref == Traversal(diff)[i].hunk.ref
          IN /\ Commit(diff, labelMap, onHunkLabelChange(hunkMap, ref, Undefined),
                       labelFilter, inFilter, FALSE, {})
             /\ lastEvent' = Event("callClear", ref, Found(ref \in DOMAIN hunkMap))

NextCalls ==
    \/ AddLabel
    \/ RemoveLabel
    \/ ToggleFilter
    \/ SelectLabel
    \/ LoadDiff
    \/ CallChangeLabel
    \/ CallRemoveLabel
    \/ CallClearLabel
    \/ FlushEffects

SpecCalls == Init /\ [][NextCalls]_vars

----------------------------------------------------------------------------
(* Reading an exported document *)

\* the places <<i, j, k>> of a document text: hunk k of file j under key i
DocPlaces(text) ==
    UNION {UNION {{<<i, j, k>> : k \in 1..Len(text.body[i].value[j].hunks)} :
                     j \in 1..Len(text.body[i].value)} :
              i \in 1..Len(text.body)}

\* place p of the text holds the hunk of traversal entry e: names and contents
HoldsHunk(text, p, e) ==
    LET fd == text.body[p[1]].value[p[2]]
    IN /\ fd.oldFileName = e.fileDiff.oldFileName
       /\ fd.newFileName = e.fileDiff.newFileName
       /\ fd.hunks[p[3]] = HunkContent(e.hunk)

Entries(d) == {Traversal(d)[i] : i \in 1..Len(Traversal(d))}

\* the document of the working state
Exported == exportAsJSON(diff, hunkMap, labelMap)

\* the working state after the exported document is loaded again
Reimported == diffMemo([isJSON |-> TRUE, text |-> Exported], labelMap, UUIDPool)

\* the objects of the reimported diff that hold the hunk of entry e
Copies(e) ==
    {c \in Entries(Reimported.diff) :
        /\ c.fileDiff.oldFileName = e.fileDiff.oldFileName
        /\ c.fileDiff.newFileName = e.fileDiff.newFileName
        /\ HunkContent(c.hunk) = HunkContent(e.hunk)}

DistinctTexts(lm) ==
    \A i, j \in 1..Len(lm) : i # j => lm[i].value # lm[j].value

----------------------------------------------------------------------------
(* Claims *)

\* C1: in every reachable state the exported document holds every hunk of the
\* working diff set exactly once, over all keys and all synthetic FileDiffs.
ExportHoldsEveryHunkOnce ==
    \A e \in Entries(diff) :
        Cardinality({p \in DocPlaces(Exported) : HoldsHunk(Exported, p, e)}) = 1

\* C2: when the label texts are pairwise distinct, every hunk associated with a
\* label of text T is, after export and import, present with the same names,
\* coordinates and lines and associated with a label of text T.
RoundTripKeepsLabelText ==
    DistinctTexts(labelMap) =>
        \A e \in Entries(diff) :
            (e.hunk.ref \in DOMAIN hunkMap /\ MapHas(labelMap, hunkMap[e.hunk.ref])) =>
                /\ Copies(e) # {}
                /\ \A c \in Copies(e) :
                      /\ c.hunk.ref \in DOMAIN Reimported.hunkMap
                      /\ MapGet(Reimported.labelMap, Reimported.hunkMap[c.hunk.ref])
                            = MapGet(labelMap, hunkMap[e.hunk.ref])

\* C3: a hunk without association has no association after export and import,
\* and the Label Store holds no label on account of the uncategorized hunks.
RoundTripKeepsUncategorized ==
    \A e \in Entries(diff) :
        e.hunk.ref \notin DOMAIN hunkMap =>
            /\ Copies(e) # {}
            /\ \A c \in Copies(e) : c.hunk.ref \notin DOMAIN Reimported.hunkMap

\* the hunk contents of a sequence of file diffs, concatenated in order
RECURSIVE HunkTexts(_)
HunkTexts(fds) ==
    IF fds = <<>> THEN <<>>
    ELSE [k \in 1..Len(Head(fds).hunks) |-> HunkContent(Head(fds).hunks[k])]
         \o HunkTexts(Tail(fds))

SamePair(f, g) == f.oldFileName = g.oldFileName /\ f.newFileName = g.newFileName

\* the hunk contents of d, the files of one filename pair taken together at the
\* place of the first of them
RECURSIVE ByPair(_)
ByPair(d) ==
    IF d = <<>> THEN <<>>
    ELSE HunkTexts(SelectSeq(d, LAMBDA f : SamePair(f, Head(d))))
         \o ByPair(SelectSeq(d, LAMBDA f : ~SamePair(f, Head(d))))

\* the file diffs of d that share a filename pair follow one another
PairsAdjacent(d) ==
    \A i, j, k \in 1..Len(d) : (i < j /\ j < k /\ SamePair(d[i], d[k])) => SamePair(d[i], d[j])

\* a diff was loaded in unified-diff mode and there is no label, no association
LoadedBare == lastEvent.op = "loadDiff" /\ labelMap = <<>> /\ hunkMap = EmptyMap

\* C4 as stated: the document of a diff loaded without labels has the one key
\* "undefined", whose hunks, concatenated, are the hunks of the diff in order.
BareExportInOrder ==
    LoadedBare =>
        /\ [i \in 1..Len(Exported.body) |-> Exported.body[i].key] = <<"undefined">>
        /\ HunkTexts(Exported.body[1].value) = HunkTexts(diff)

\* C4 amended: for a diff with at least one hunk, the one key is "undefined" and
\* its hunks, concatenated, are the hunks of the diff taken filename pair by
\* filename pair in order of first occurrence: the order of the diff itself when
\* the files of one pair are adjacent.  A diff without hunks exports no key.
BareExportByPair ==
    LoadedBare =>
        IF changesCount(diff) = 0 THEN Exported.body = <<>>
        ELSE /\ [i \in 1..Len(Exported.body) |-> Exported.body[i].key] = <<"undefined">>
             /\ HunkTexts(Exported.body[1].value) = ByPair(diff)
             /\ PairsAdjacent(diff) => HunkTexts(Exported.body[1].value) = HunkTexts(diff)

\* C4 witness: a loaded diff names a file twice with another file in between,
\* so that the document does not keep the order of its hunks.
BareExportWitness ==
    /\ LoadedBare
    /\ Quiescent
    /\ ~PairsAdjacent(diff)
    /\ ByPair(diff) # HunkTexts(diff)

\* C5: after removeLabel(L) and the effects it triggers, no entry of the
\* Association Store has value L, whatever the filter was.
DeletionClearsAssociations ==
    (lastEvent.op = "removeLabel" /\ Quiescent) =>
        \A ref \in DOMAIN hunkMap : hunkMap[ref] # lastEvent.id

\* C6: after removeLabel(L) and the effects it triggers, L is not in the Filter
\* Store.
DeletionEvictsFromFilter ==
    (lastEvent.op = "removeLabel" /\ Quiescent) => lastEvent.id \notin labelFilter

\* the hunks that are displayed
Displayed == {v.hunk : v \in hunkViews}

\* C7: a hunk of the working diff set is displayed if and only if the filter is
\* empty, or the hunk has no association, or the filter holds its label id.
VisibilityRule ==
    \A e \in Entries(diff) :
        e.hunk.ref \in Displayed <=>
            \/ labelFilter = {}
            \/ HunkGet(hunkMap, e.hunk.ref) = Undefined
            \/ HunkGet(hunkMap, e.hunk.ref) \in labelFilter

\* C7 witness: under a filter {L1}, a hunk associated with another label is
\* hidden while a hunk without association is displayed.
VisibilityWitness ==
    /\ Cardinality(labelFilter) = 1
    /\ \E e \in Entries(diff) :
          /\ e.hunk.ref \in DOMAIN hunkMap
          /\ MapHas(labelMap, hunkMap[e.hunk.ref])
          /\ hunkMap[e.hunk.ref] \notin labelFilter
          /\ e.hunk.ref \notin Displayed
    /\ \E e \in Entries(diff) :
          e.hunk.ref \notin DOMAIN hunkMap /\ e.hunk.ref \in Displayed

FailedLoadKeepsState ==
    [][lastEvent'.op = "loadInvalid" =>
          UNCHANGED <<labelMap, hunkMap, labelFilter, diff>>]_vars

\* the label ids in list order
LabelOrder(lm) == [i \in 1..Len(lm) |-> lm[i].key]

\* C10: changeLabel(L, t) on an existing label changes only the text of L: the
\* ids and their order, the texts of the other labels, every association and
\* the filter stay, also through the effects that follow.
RenamePreservesIdentity ==
    [][lastEvent'.op = "changeLabel" =>
          /\ LabelOrder(labelMap') = LabelOrder(labelMap)
          /\ \A id \in MapKeys(labelMap) :
                MapGet(labelMap', id) =
                    IF id = lastEvent'.id /\ Quiescent THEN lastEvent'.text
                    ELSE MapGet(labelMap, id)
          /\ hunkMap' = hunkMap
          /\ labelFilter' = labelFilter]_vars

\* C10 witness: the first of two labels, in the filter and associated with a
\* hunk, was renamed.
RenameWitness ==
    /\ lastEvent.op = "changeLabel"
    /\ Quiescent
    /\ Len(labelMap) = 2
    /\ labelMap[1].key = lastEvent.id
    /\ labelMap[1].value = lastEvent.text
    /\ lastEvent.id \in labelFilter
    /\ lastEvent.id \in Range(hunkMap)

\* C11: changeLabel(id, newText) with an id that is not in the Label Store is a
\* no-op: the Label Store is unchanged, no label with that id is created.
RenameAbsentIsNoOp ==
    [][(lastEvent'.op = "callChangeLabel" /\ lastEvent'.text = "absent") =>
          labelMap' = labelMap]_vars

\* C12: onHunkLabelChange(h, undefined) for a hunk without association and
\* removeLabel(id) for an id that is not in the Label Store raise no error and
\* leave the Label Store, the Association Store and the Filter Store as they
\* were, also through the effects that follow.
AbsentRemovalsKeepStores ==
    [][(lastEvent'.op \in {"callRemoveLabel", "callClear"} /\ lastEvent'.text = "absent") =>
          /\ ~crashed'
          /\ labelMap' = labelMap
          /\ hunkMap' = hunkMap
          /\ labelFilter' = labelFilter]_vars

\* C12 witness: a label that was deleted before, and whose id is still in the
\* filter, is deleted again while another label and an association exist.
AbsentRemovalWitness ==
    /\ lastEvent.op = "callRemoveLabel"
    /\ lastEvent.text = "absent"
    /\ Quiescent
    /\ lastEvent.id \in labelFilter
    /\ labelMap # <<>>
    /\ hunkMap # EmptyMap

\* the entries of the traversal whose hunk is one of refs, in traversal order
GroupEntries(refs) == SelectSeq(Traversal(diff), LAMBDA e : e.hunk.ref \in refs)

\* the hunks associated with label id, and the hunks without association
RefsOf(id) == {r \in DOMAIN hunkMap : hunkMap[r] = id}
Uncategorized == {e.hunk.ref : e \in Entries(diff)} \ DOMAIN hunkMap

\* fds holds one synthetic FileDiff per filename pair of the group refs, and its
\* hunks are the hunks of the group with that pair, in traversal order
IsGroupDocument(fds, refs) ==
    LET es == GroupEntries(refs)
    IN /\ \A j \in 1..Len(fds) :
             \E k \in 1..Len(es) : FileKey(es[k].fileDiff) = FileKey(fds[j])
       /\ \A k \in 1..Len(es) :
             LET js == {j \in 1..Len(fds) : FileKey(fds[j]) = FileKey(es[k].fileDiff)}
                 sel == SelectSeq(es, LAMBDA e : FileKey(e.fileDiff) = FileKey(es[k].fileDiff))
             IN /\ Cardinality(js) = 1
                /\ \A j \in js : fds[j].hunks = [n \in 1..Len(sel) |-> sel[n].hunk]

\* the labels that have at least one associated hunk
LabelsWithHunks == {id \in MapKeys(labelMap) : RefsOf(id) # {}}

\* C13: the exported document has one key per label with an associated hunk
\* (the label's text) plus "undefined" when a hunk is uncategorized, and under
\* each key one synthetic FileDiff per filename pair of the group, holding the
\* group's hunks of that pair in the order of the traversal.
ExportGrouping ==
    LET object == ExportObject(diff, hunkMap, labelMap)
    IN /\ Len(object) = Cardinality(LabelsWithHunks) + (IF Uncategorized # {} THEN 1 ELSE 0)
       /\ \A id \in LabelsWithHunks :
             \E i \in 1..Len(object) :
                 /\ object[i].key = MapGet(labelMap, id)
                 /\ IsGroupDocument(object[i].value, RefsOf(id))
       /\ Uncategorized # {} =>
             \E i \in 1..Len(object) :
                 /\ object[i].key = "undefined"
                 /\ IsGroupDocument(object[i].value, Uncategorized)

\* for every FileDiff of the concatenation of the documents' values, the index
\* of its key
RECURSIVE Owners(_, _)
Owners(doc, i) ==
    IF i > Len(doc) THEN <<>>
    ELSE [j \in 1..Len(doc[i].value) |-> i] \o Owners(doc, i + 1)

\* the FileDiffs of all keys, in key order
RECURSIVE AllFileDiffs(_)
AllFileDiffs(doc) ==
    IF doc = <<>> THEN <<>> ELSE Head(doc).value \o AllFileDiffs(Tail(doc))

\* a working diff set as text: the hunks without their identity
AsText(d) ==
    [n \in 1..Len(d) |->
        [d[n] EXCEPT !.hunks = [k \in 1..Len(d[n].hunks) |-> HunkContent(d[n].hunks[k])]]]

\* lm, hm and d are the state a document import of text leaves, used being the
\* ids the stores referred to before the load
IsImportOf(text, used, lm, hm, d) ==
    LET doc == text.body
    IN /\ Len(lm) = Len(doc)
       /\ \A i \in 1..Len(lm) :
             /\ lm[i].value = doc[i].key
             /\ lm[i].key \notin used
             /\ \A j \in 1..Len(lm) : i # j => lm[i].key # lm[j].key
       /\ AsText(d) = AllFileDiffs(doc)
       /\ Cardinality(DOMAIN hm) = changesCount(d)
       /\ \A n \in 1..Len(d) : \A k \in 1..Len(d[n].hunks) :
             /\ d[n].hunks[k].ref \in DOMAIN hm
             /\ hm[d[n].hunks[k].ref] = lm[Owners(doc, 1)[n]].key

\* C14: after a document is imported, the Label Store holds exactly one label
\* with a fresh id per key of the document (text = the key), every hunk under a
\* key is associated with that key's label and there is no other association,
\* and the working diff set is the FileDiffs of all keys in key order; the
\* effects that follow change none of this.
ImportReplacesState ==
    [][lastEvent'.op \in {"loadDocument", "loadExported"} =>
          IF Quiescent
          THEN IsImportOf(IF lastEvent'.op = "loadDocument" THEN JSONFile(SampleDocument)
                          ELSE Exported,
                          UsedUUIDs, labelMap', hunkMap', diff')
          ELSE labelMap' = labelMap /\ hunkMap' = hunkMap /\ diff' = diff]_vars

\* C14 witness: an exported document was imported while a label existed whose
\* id is still in the filter; the new label has another id.
ImportWitness ==
    /\ lastEvent.op = "loadExported"
    /\ Quiescent
    /\ labelMap # <<>>
    /\ hunkMap # EmptyMap
    /\ labelFilter \ MapKeys(labelMap) # {}

\* C15: loading an input, in either mode, leaves the set of label ids in the
\* Filter Store unchanged: only the user's filter toggles (and the effects they
\* trigger) change it.
FilterIndependentOfInput ==
    [][labelFilter' # labelFilter => lastEvent'.op = "toggleFilter"]_vars

\* C16: every write to the Association Store issued by a hunk's selector clears
\* the association or stores an id that is in the Label Store at that moment,
\* whichever option is chosen, the placeholder included.
SelectorStoresLabelIds ==
    [][(Quiescent /\ lastEvent'.op = "selectLabel") =>
          \A ref \in DOMAIN hunkMap' :
              HunkGet(hunkMap, ref) # hunkMap'[ref] => MapHas(labelMap, hunkMap'[ref])]_vars

\* C17: every key of the Association Store is a hunk of the working diff set,
\* so the displayed uncategorized count is never negative and is the number of
\* hunks without association; changesCount is the number of hunks of all
\* file-diffs.
AssociationsWithinDiff ==
    /\ DOMAIN hunkMap \subseteq {e.hunk.ref : e \in Entries(diff)}
    /\ UncategorizedCount >= 0
    /\ UncategorizedCount = Cardinality(Uncategorized)
    /\ changesCount(diff) = Cardinality(Entries(diff))

\* C17 witness: of the two hunks of the working diff set, one was given a label.
CountWitness ==
    /\ lastEvent.op = "selectLabel"
    /\ Quiescent
    /\ changesCount(diff) = 2
    /\ UncategorizedCount = 1
    /\ Range(hunkMap) \subseteq MapKeys(labelMap)

\* C18: in every quiescent state every label id in the Filter Store is the id
\* of a label in the Label Store.
FilterWithinLabels == Quiescent => labelFilter \subseteq MapKeys(labelMap)

\* C19: after a user event the effects of HunkView and LabelView fire finitely
\* many times: whenever effects are pending, a state with no effect pending
\* follows, in which no effect changes a store.
CascadeTerminates == ~Quiescent ~> Quiescent

\* C19 witness: the effect of a filter toggle has displayed a hunk whose label
\* is not in the Label Store; the pending effect of its view clears the
\* association, which mounts the view again and schedules its effect once more.
CascadeWitness ==
    /\ ~Quiescent
    /\ lastEvent.op = "toggleFilter"
    /\ \E ref \in pendingHunk :
          /\ ref \in DOMAIN hunkMap
          /\ ~MapHas(labelMap, hunkMap[ref])

====
